---- MODULE Spec2Model ----
(***************************************************************************)
(* Model of app.py: sentence splitting, tokenizing, term scoring, the      *)
(* fill-in-blank and true/false generators, the quiz loop and the output   *)
(* formatter.                                                              *)
(*                                                                         *)
(* A Python str is a sequence of characters.  An ASCII character is the    *)
(* one-character string "a"; a non-ASCII character is the atom "U+XXXX"    *)
(* of its code point (U+B2E4 is the Hangul syllable DA, U+3002 the         *)
(* ideographic full stop).  Literal text that the code only ever appends   *)
(* as a whole (the explanation's prefix, a section header) is one atom.    *)
(***************************************************************************)
EXTENDS Integers, Sequences, FiniteSets, TLC

VARIABLES
    pc,              \* position of the call being modelled
    text,            \* argument of split_sentences / generate_quiz / generate_all
    sents,           \* result of split_sentences
    sent,            \* argument of make_fill_in_blank / make_true_false
    question, answer,                      \* result of make_fill_in_blank
    statement, truth, explanation,         \* result of make_true_false
    below, n, new_n, k,                    \* make_true_false: the draws of rnd and new_n
    caller, num_tf, num_blank, tf_list, blank_list, idx,   \* generate_quiz
    types, num_discussion, discussions, out,      \* generate_all
    words, scored, prevScored, lastTerm            \* score_tokens under a changing input

splitVars == <<text, sents>>
fillVars  == <<sent, question, answer>>
tfVars    == <<statement, truth, explanation, below, n, new_n, k>>
quizVars  == <<caller, num_tf, num_blank, tf_list, blank_list, idx>>
allVars   == <<types, num_discussion, discussions, out>>
scoreVars == <<words, scored, prevScored, lastTerm>>
vars == <<pc, splitVars, fillVars, tfVars, quizVars, allVars, scoreVars>>

\* Python's None
None == <<"None">>

(***************************************************************************)
(* Characters                                                              *)
(***************************************************************************)
LowerLetters ==
  <<"a","b","c","d","e","f","g","h","i","j","k","l","m",
    "n","o","p","q","r","s","t","u","v","w","x","y","z">>

UpperLetters ==
  <<"A","B","C","D","E","F","G","H","I","J","K","L","M",
    "N","O","P","Q","R","S","T","U","V","W","X","Y","Z">>

DigitChars == <<"0","1","2","3","4","5","6","7","8","9">>

EnglishStopwords ==
  {
    <<"a">>, <<"a","n">>, <<"t","h","e">>, <<"a","n","d">>, <<"o","r">>, <<"b","u","t">>,
    <<"i","f">>, <<"t","h","e","n">>, <<"s","o">>, <<"b","e","c","a","u","s","e">>, <<"a","s">>,
    <<"o","f">>, <<"i","n">>, <<"o","n">>, <<"a","t">>, <<"t","o">>, <<"f","o","r">>,
    <<"f","r","o","m">>, <<"b","y">>, <<"w","i","t","h">>, <<"a","b","o","u","t">>,
    <<"i","n","t","o">>, <<"t","h","r","o","u","g","h">>, <<"d","u","r","i","n","g">>,
    <<"b","e","f","o","r","e">>, <<"a","f","t","e","r">>, <<"a","b","o","v","e">>,
    <<"b","e","l","o","w">>, <<"u","p">>, <<"d","o","w","n">>, <<"o","u","t">>,
    <<"o","v","e","r">>, <<"u","n","d","e","r">>, <<"a","g","a","i","n">>,
    <<"f","u","r","t","h","e","r">>, <<"h","e","r","e">>, <<"t","h","e","r","e">>,
    <<"w","h","e","n">>, <<"w","h","e","r","e">>, <<"w","h","y">>, <<"h","o","w">>,
    <<"a","l","l">>, <<"a","n","y">>, <<"b","o","t","h">>, <<"e","a","c","h">>, <<"f","e","w">>,
    <<"m","o","r","e">>, <<"m","o","s","t">>, <<"o","t","h","e","r">>, <<"s","o","m","e">>,
    <<"s","u","c","h">>, <<"n","o">>, <<"n","o","r">>, <<"n","o","t">>, <<"o","n","l","y">>,
    <<"o","w","n">>, <<"s","a","m","e">>, <<"t","h","a","n">>, <<"t","o","o">>,
    <<"v","e","r","y">>, <<"c","a","n">>, <<"w","i","l","l">>, <<"j","u","s","t">>,
    <<"s","h","o","u","l","d">>, <<"n","o","w">>
  }

KoreanStopwords ==
  {
    <<"U+C774">>, <<"U+ADF8">>, <<"U+C800">>, <<"U+AC83">>, <<"U+C218">>, <<"U+B4F1">>,
    <<"U+BC0F">>, <<"U+B610","U+B294">>, <<"U+ADF8","U+B9AC","U+ACE0">>,
    <<"U+ADF8","U+B798","U+C11C">>, <<"U+B610","U+D55C">>, <<"U+C740">>, <<"U+B294">>,
    <<"U+AC00">>, <<"U+C744">>, <<"U+B97C">>, <<"U+C758">>, <<"U+C5D0">>, <<"U+C5D0","U+C11C">>,
    <<"U+C73C","U+B85C">>, <<"U+B85C">>, <<"U+C640">>, <<"U+ACFC">>, <<"U+B3C4">>, <<"U+B9CC">>
  }

HangulChars ==
  {"U+AC00", "U+AC83", "U+ACE0", "U+ACFC", "U+ADF8", "U+B294", "U+B2E4", "U+B3C4", "U+B4F1",
   "U+B610", "U+B798", "U+B85C", "U+B97C", "U+B9AC", "U+B9CC", "U+BC0F", "U+C11C", "U+C218",
   "U+C5D0", "U+C640", "U+C73C", "U+C740", "U+C744", "U+C758", "U+C774", "U+C800", "U+D55C"}

\* STOPWORDS (app.py:8-14)
STOPWORDS == EnglishStopwords \cup KoreanStopwords

\* [A-Za-z]
Letters == {LowerLetters[i] : i \in DOMAIN LowerLetters}
             \cup {UpperLetters[i] : i \in DOMAIN UpperLetters}
IsLetter(c) == c \in Letters

\* [0-9] and \d on the characters of the model
Digits == {DigitChars[i] : i \in DOMAIN DigitChars}
IsDigit(c) == c \in Digits

\* [U+AC00-U+D7A3], on the Hangul syllables of the model
IsHangul(c) == c \in HangulChars

\* \s, and the characters str.strip() removes
IsSpace(c) == c \in {" ", "\t", "\n"}

\* the lookbehind of the split pattern: [.!?] , U+3002, or U+B2E4
IsTerminal(c) == c \in {".", "!", "?", "U+3002", "U+B2E4"}

\* str.lower() of one character
ToLower(c) ==
  IF c \in {UpperLetters[i] : i \in DOMAIN UpperLetters}
  THEN LowerLetters[CHOOSE i \in DOMAIN UpperLetters : c = UpperLetters[i]]
  ELSE c

RECURSIVE Lower(_)
\* str.lower()
Lower(s) == IF s = <<>> THEN <<>> ELSE <<ToLower(Head(s))>> \o Lower(Tail(s))

\* every string over alphabet of length at most len
Strings(alphabet, len) == UNION {[1..m -> alphabet] : m \in 0..len}

(***************************************************************************)
(* split_sentences (app.py:19-24)                                          *)
(***************************************************************************)
RECURSIVE LStrip(_)
LStrip(s) == IF s # <<>> /\ IsSpace(Head(s)) THEN LStrip(Tail(s)) ELSE s

RECURSIVE RStrip(_)
RStrip(s) ==
  IF s # <<>> /\ IsSpace(s[Len(s)]) THEN RStrip(SubSeq(s, 1, Len(s) - 1)) ELSE s

\* str.strip()
Strip(s) == RStrip(LStrip(s))

RECURSIVE CollapseWhitespace(_)
\* re.sub(r'\s+', ' ', text)
CollapseWhitespace(s) ==
  IF s = <<>> THEN <<>>
  ELSE IF IsSpace(Head(s)) THEN <<" ">> \o CollapseWhitespace(LStrip(s))
  ELSE <<Head(s)>> \o CollapseWhitespace(Tail(s))

RECURSIVE SpaceRunEnd(_, _)
\* last index of the whitespace run of s that starts at i
SpaceRunEnd(s, i) ==
  IF i < Len(s) /\ IsSpace(s[i + 1]) THEN SpaceRunEnd(s, i + 1) ELSE i

RECURSIVE SplitFrom(_, _, _)
\* re.split(r'(?<=[.!?U+3002]|U+B2E4)\s+', s), scanning at i with the current
\* part starting at start
SplitFrom(s, i, start) ==
  IF i > Len(s) THEN <<SubSeq(s, start, Len(s))>>
  ELSE IF IsSpace(s[i]) /\ i > 1 /\ IsTerminal(s[i - 1])
  THEN LET e == SpaceRunEnd(s, i)
       IN <<SubSeq(s, start, i - 1)>> \o SplitFrom(s, e + 1, e + 1)
  ELSE SplitFrom(s, i + 1, start)

ReSplit(s) == SplitFrom(s, 1, 1)

\* the shortest fragment split_sentences keeps
MinSentenceLen == 3

\* KeepPart as "if p.strip()": the length test lost
KeepPartNonEmpty(p) == Len(Strip(p)) > 0

\* the filter of the comprehension: len(p.strip()) >= 3
KeepPart(p) == Len(Strip(p)) >= MinSentenceLen

RECURSIVE StripAll(_)
StripAll(parts) ==
  IF parts = <<>> THEN <<>> ELSE <<Strip(Head(parts))>> \o StripAll(Tail(parts))

split_sentences(t) ==
  IF t = <<>> THEN <<>>
  ELSE StripAll(SelectSeq(ReSplit(Strip(CollapseWhitespace(t))), KeepPart))

(***************************************************************************)
(* tokenize (app.py:16, 26-27)                                             *)
(***************************************************************************)
CharClass(c) ==
  IF IsLetter(c) THEN "letter"
  ELSE IF IsDigit(c) THEN "digit"
  ELSE IF IsHangul(c) THEN "hangul"
  ELSE "other"

RECURSIVE RunEnd(_, _)
\* last index of the run of characters of s[i]'s class that starts at i
RunEnd(s, i) ==
  IF i < Len(s) /\ CharClass(s[i + 1]) = CharClass(s[i]) THEN RunEnd(s, i + 1) ELSE i

\* WORD_PATTERN matched at i: the index of the match's last character, 0 if none.
\*   [A-Za-z]+(?:'[A-Za-z]+)?  |  [0-9]+(?:\.[0-9]+)?  |  [U+AC00-U+D7A3]+
MatchEnd(s, i) ==
  LET e == RunEnd(s, i) IN
  CASE CharClass(s[i]) = "letter" ->
         IF e + 2 <= Len(s) /\ s[e + 1] = "'" /\ IsLetter(s[e + 2])
         THEN RunEnd(s, e + 2) ELSE e
    [] CharClass(s[i]) = "digit" ->
         IF e + 2 <= Len(s) /\ s[e + 1] = "." /\ IsDigit(s[e + 2])
         THEN RunEnd(s, e + 2) ELSE e
    [] CharClass(s[i]) = "hangul" -> e
    [] OTHER -> 0

RECURSIVE TokensFrom(_, _)
\* WORD_PATTERN.finditer from position i
TokensFrom(s, i) ==
  IF i > Len(s) THEN <<>>
  ELSE LET e == MatchEnd(s, i)
       IN IF e = 0 THEN TokensFrom(s, i + 1)
          ELSE <<SubSeq(s, i, e)>> \o TokensFrom(s, e + 1)

tokenize(s) == TokensFrom(s, 1)

(***************************************************************************)
(* str.find / str.replace(old, new, 1) / pattern.sub(repl, s, count=1) for *)
(* an escaped literal pattern                                              *)
(***************************************************************************)
OccursAt(s, sub, i) ==
  /\ i >= 1
  /\ i + Len(sub) - 1 <= Len(s)
  /\ SubSeq(s, i, i + Len(sub) - 1) = sub

RECURSIVE FindFrom(_, _, _)
FindFrom(s, sub, i) ==
  IF i + Len(sub) - 1 > Len(s) THEN 0
  ELSE IF OccursAt(s, sub, i) THEN i
  ELSE FindFrom(s, sub, i + 1)

\* 1-based index of the first occurrence of sub in s, 0 if there is none
Find(s, sub) == FindFrom(s, sub, 1)

Contains(s, sub) == sub = <<>> \/ Find(s, sub) > 0

ReplaceFirst(s, old, new) ==
  LET at == Find(s, old)
  IN IF at = 0 THEN s
     ELSE SubSeq(s, 1, at - 1) \o new \o SubSeq(s, at + Len(old), Len(s))

(***************************************************************************)
(* make_fill_in_blank (app.py:41-51)                                       *)
(***************************************************************************)
\* the blank marker "____"
BLANK == <<"_", "_", "_", "_">>

\* the shortest token the candidate filter keeps
MinCandidateLen == 2

\* IsCandidate with > for >=
IsCandidateLonger(t) == Len(t) > MinCandidateLen /\ t \notin STOPWORDS

IsCandidate(t) == Len(t) >= MinCandidateLen /\ t \notin STOPWORDS

RECURSIVE MaxByLenFrom(_, _)
MaxByLenFrom(toks, best) ==
  IF toks = <<>> THEN best
  ELSE MaxByLenFrom(Tail(toks), IF Len(Head(toks)) > Len(best) THEN Head(toks) ELSE best)

\* max(toks, key=len): the first of the longest tokens
MaxByLen(toks) == MaxByLenFrom(Tail(toks), Head(toks))

\* lines 43-45
Candidates(s) ==
  LET toks == tokenize(s)
      cands == SelectSeq(toks, IsCandidate)
  IN IF cands = <<>> /\ toks # <<>> THEN <<MaxByLen(toks)>> ELSE cands

RECURSIVE FirstFound(_, _)
\* the loop of lines 46-51 over the remaining candidates
FirstFound(s, cands) ==
  IF cands = <<>> THEN <<None, None>>
  ELSE IF Find(s, Head(cands)) > 0
  THEN <<ReplaceFirst(s, Head(cands), BLANK), Head(cands)>>
  ELSE FirstFound(s, Tail(cands))

\* the pair (question, answer)
make_fill_in_blank(s) == FirstFound(s, Candidates(s))

(***************************************************************************)
(* make_true_false (app.py:54-67)                                          *)
(***************************************************************************)
RECURSIVE DigitRunsFrom(_, _)
DigitRunsFrom(s, i) ==
  IF i > Len(s) THEN <<>>
  ELSE IF IsDigit(s[i])
  THEN LET e == RunEnd(s, i) IN <<SubSeq(s, i, e)>> \o DigitRunsFrom(s, e + 1)
  ELSE DigitRunsFrom(s, i + 1)

\* re.findall(r'\d+', s)
DigitRuns(s) == DigitRunsFrom(s, 1)

DigitValue(c) == (CHOOSE i \in DOMAIN DigitChars : DigitChars[i] = c) - 1

RECURSIVE StrToInt(_)
\* int(n) of a digit string
StrToInt(s) ==
  IF s = <<>> THEN 0
  ELSE 10 * StrToInt(SubSeq(s, 1, Len(s) - 1)) + DigitValue(s[Len(s)])

RECURSIVE IntToStr(_)
\* str(v) of a non-negative int
IntToStr(v) ==
  IF v < 10 THEN <<DigitChars[v + 1]>>
  ELSE IntToStr(v \div 10) \o <<DigitChars[(v % 10) + 1]>>

\* rnd.randint(1, 10)
RandintLow == 1
RandintHigh == 10
\* Offsets as rnd.randint(0, 10)
OffsetsFromZero == 0..RandintHigh

Offsets == RandintLow..RandintHigh

ExplanationPrefix == <<"U+C6D0", "U+BB38", ":", " ", "'">>
ExplanationChange == <<" ", "-", ">", " ", "U+C22B", "U+C790", " ", "U+BCC0", "U+ACBD", " ">>
Arrow == <<"U+2192">>

\* line 58
QuoteSentence(s) == ExplanationPrefix \o s \o <<"'">>

\* NewNumber as n + str(offset): the int() conversion lost
NewNumberConcatenated(num, offset) == num \o IntToStr(offset)

\* line 62
NewNumber(num, offset) == IntToStr(StrToInt(num) + offset)

\* line 65
ChangeNote(num, new) == ExplanationChange \o num \o Arrow \o new

\* lines 61-66, with rnd.choice(nums) = nums[choice] and rnd.randint(1,10) = offset
Falsified(s, choice, offset) ==
  LET num == DigitRuns(s)[choice]
      new == NewNumber(num, offset)
  IN [statement |-> ReplaceFirst(s, num, new), answer |-> FALSE,
      explanation |-> QuoteSentence(s) \o ChangeNote(num, new),
      n |-> num, new_n |-> new, k |-> offset]

\* lines 56-58, 67
Unchanged(s) ==
  [statement |-> s, answer |-> TRUE, explanation |-> QuoteSentence(s),
   n |-> None, new_n |-> None, k |-> 0]

\* make_true_false(s, scored, rnd) where rnd.random() < 0.6 is draw,
\* rnd.choice(nums) is nums[choice] and rnd.randint(1, 10) is offset
make_true_false(s, draw, choice, offset) ==
  IF DigitRuns(s) # <<>> /\ draw THEN Falsified(s, choice, offset) ELSE Unchanged(s)

\* the indices rnd.choice(nums) can pick
Choices(s) == IF DigitRuns(s) = <<>> THEN {1} ELSE 1..Len(DigitRuns(s))

\* every result of make_true_false(s, scored, rnd), over the draws of rnd
TrueFalseResults(s) ==
  {make_true_false(s, draw, choice, offset) :
     draw \in BOOLEAN, choice \in Choices(s), offset \in Offsets}

(***************************************************************************)
(* score_tokens (app.py:29-38)                                             *)
(***************************************************************************)
RECURSIVE AllTokens(_)
\* lines 30-32
AllTokens(ss) == IF ss = <<>> THEN <<>> ELSE tokenize(Head(ss)) \o AllTokens(Tail(ss))

\* the filter of line 33
IsCounted(t) == Lower(t) \notin STOPWORDS

\* freq[t]
Count(toks, t) == Cardinality({i \in DOMAIN toks : toks[i] = t})

RECURSIVE KeysInOrder(_, _)
\* the keys of the Counter, in the order of their first occurrence
KeysInOrder(toks, seen) ==
  IF toks = <<>> THEN <<>>
  ELSE IF Head(toks) \in seen THEN KeysInOrder(Tail(toks), seen)
  ELSE <<Head(toks)>> \o KeysInOrder(Tail(toks), seen \cup {Head(toks)})

\* line 36, score = f + len(t)/4, held exactly as the number of quarters 4*f + len(t)
Score(t, f) == 4 * f + Len(t)

RECURSIVE ScoreItems(_, _)
\* scores.items(): the pairs (t, score) in the order of the Counter's keys
ScoreItems(keys, toks) ==
  IF keys = <<>> THEN <<>>
  ELSE <<<<Head(keys), Score(Head(keys), Count(toks, Head(keys)))>>>>
         \o ScoreItems(Tail(keys), toks)

\* InsertByScore without reverse=True: ascending
InsertByScoreAscending(sorted, x) ==
  LET p == Cardinality({i \in DOMAIN sorted : sorted[i][2] <= x[2]})
  IN SubSeq(sorted, 1, p) \o <<x>> \o SubSeq(sorted, p + 1, Len(sorted))

\* where a stable descending sort puts item x among the sorted items:
\* after every item whose score is at least x's
InsertByScore(sorted, x) ==
  LET p == Cardinality({i \in DOMAIN sorted : sorted[i][2] >= x[2]})
  IN SubSeq(sorted, 1, p) \o <<x>> \o SubSeq(sorted, p + 1, Len(sorted))

RECURSIVE SortedFrom(_, _)
SortedFrom(items, acc) ==
  IF items = <<>> THEN acc ELSE SortedFrom(Tail(items), InsertByScore(acc, Head(items)))

\* sorted(items, key=lambda x: x[1], reverse=True): stable, ties keep their order
SortedByScore(items) == SortedFrom(items, <<>>)

score_tokens(ss) ==
  LET toks == SelectSeq(AllTokens(ss), IsCounted)
  IN SortedByScore(ScoreItems(KeysInOrder(toks, {}), toks))

(***************************************************************************)
(* generate_discussion_topics (app.py:87-92)                               *)
(***************************************************************************)
TopicSuffix ==
  <<"'", "U+C758", " ", "U+D575", "U+C2EC", " ", "U+C758", "U+BBF8", "U+C640", " ",
    "U+C0AC", "U+D68C", "U+C801", "/", "U+C5ED", "U+C0AC", "U+C801", " ", "U+C601",
    "U+D5A5", "U+C744", " ", "U+D1A0", "U+B860", "U+D558", "U+C2DC", "U+C624", ".">>

\* seq[:num]
SliceTo(seq, num) ==
  IF num >= 0 THEN SubSeq(seq, 1, IF num < Len(seq) THEN num ELSE Len(seq))
  ELSE SubSeq(seq, 1, Len(seq) + num)

RECURSIVE Topics(_)
Topics(ss) ==
  IF ss = <<>> THEN <<>> ELSE <<<<"'">> \o Head(ss) \o TopicSuffix>> \o Topics(Tail(ss))

generate_discussion_topics(t, num) == Topics(SliceTo(split_sentences(t), num))

(***************************************************************************)
(* format_output (app.py:95-115)                                           *)
(***************************************************************************)
DiscussionHeader == <<"#", "#", "#", " ", "U+D1A0", "U+B860", " ", "U+C8FC", "U+C81C", "\n">>
TrueFalseHeader == <<"#", "#", "#", " ", "O", "X", " ", "U+BB38", "U+C81C", "\n">>
BlankHeader ==
  <<"#", "#", "#", " ", "U+BE48", "U+CE78", " ", "U+CC44", "U+C6B0", "U+AE30", "\n">>
AnswerLabel == <<" ", " ", " ", "U+C815", "U+B2F5", ":", " ">>
ExplanationLabel == <<" ", " ", " ", "U+D574", "U+C124", ":", " ">>
TrueMark == <<"O", "(", "U+CC38", ")">>
FalseMark == <<"X", "(", "U+AC70", "U+C9D3", ")">>

RECURSIVE TopicLines(_, _)
\* lines 99-100
TopicLines(ds, i) ==
  IF i > Len(ds) THEN <<>>
  ELSE IntToStr(i) \o <<")", " ">> \o ds[i] \o <<"\n">> \o TopicLines(ds, i + 1)

RECURSIVE TrueFalseLines(_, _)
\* lines 104-107
TrueFalseLines(tf, i) ==
  IF i > Len(tf) THEN <<>>
  ELSE IntToStr(i) \o <<")", " ">> \o tf[i].statement \o <<"\n">>
         \o AnswerLabel \o (IF tf[i].answer THEN TrueMark ELSE FalseMark) \o <<"\n">>
         \o ExplanationLabel \o tf[i].explanation \o <<"\n">>
         \o TrueFalseLines(tf, i + 1)

RECURSIVE BlankLines(_, _)
\* lines 111-113
BlankLines(bl, i) ==
  IF i > Len(bl) THEN <<>>
  ELSE IntToStr(i) \o <<")", " ">> \o bl[i].question \o <<"\n">>
         \o AnswerLabel \o bl[i].answer \o <<"\n">>
         \o BlankLines(bl, i + 1)

\* ShowSection without the test that the list is non-empty
ShowSectionFlagOnly(flag, items) == flag

\* the conditions of lines 97, 102 and 109: the flag, and a non-empty list
ShowSection(flag, items) == flag /\ items # <<>>

format_output(ds, tf, bl, show_discussion, show_tf, show_blank) ==
  (IF ShowSection(show_discussion, ds)
     THEN DiscussionHeader \o TopicLines(ds, 1) \o <<"\n">> ELSE <<>>)
  \o (IF ShowSection(show_tf, tf)
        THEN TrueFalseHeader \o TrueFalseLines(tf, 1) \o <<"\n">> ELSE <<>>)
  \o (IF ShowSection(show_blank, bl)
        THEN BlankHeader \o BlankLines(bl, 1) \o <<"\n">> ELSE <<>>)

\* the choices of the CheckboxGroup (app.py:119-121, 130)
TypeDiscussion == <<"U+D1A0", "U+B860", " ", "U+C8FC", "U+C81C">>
TypeTrueFalse == <<"O", "X", " ", "U+BB38", "U+C81C">>
TypeBlank == <<"U+BE48", "U+CE78", " ", "U+BB38", "U+C81C">>

(***************************************************************************)
(* The state of the calls that a specification does not make               *)
(***************************************************************************)
NoSplit == text = <<>> /\ sents = <<>>
NoFill  == sent = <<>> /\ question = None /\ answer = None
NoTF    == /\ statement = None /\ truth = TRUE /\ explanation = None
           /\ below = FALSE /\ n = None /\ new_n = None /\ k = 0
NoQuiz  == /\ caller = "none" /\ num_tf = 0 /\ num_blank = 0
           /\ tf_list = <<>> /\ blank_list = <<>> /\ idx = 0
NoAll   == types = {} /\ num_discussion = 0 /\ discussions = <<>> /\ out = <<>>
NoScore == words = <<>> /\ scored = <<>> /\ prevScored = <<>> /\ lastTerm = None

(***************************************************************************)
(* split_sentences on every short text                                     *)
(***************************************************************************)
MaxSplitLen == 7
SplitAlphabet == {" ", "\t", ".", "a", "U+B2E4"}

InitSplit ==
  /\ pc = "split_call"
  /\ text \in Strings(SplitAlphabet, MaxSplitLen)
  /\ sents = <<>>
  /\ NoFill /\ NoTF /\ NoQuiz /\ NoAll /\ NoScore

SplitSentences ==
  /\ pc = "split_call"
  /\ sents' = split_sentences(text)
  /\ pc' = "split_done"
  /\ UNCHANGED <<text, fillVars, tfVars, quizVars, allVars, scoreVars>>

NextSplit == SplitSentences
SpecSplit == InitSplit /\ [][NextSplit]_vars

(***************************************************************************)
(* make_fill_in_blank on every short sentence                              *)
(***************************************************************************)
MaxFillLen == 5
FillAlphabet == {"a", "n", "A", "'", "1", " ", "_"}

InitFill ==
  /\ pc = "fill_call"
  /\ sent \in Strings(FillAlphabet, MaxFillLen)
  /\ question = None /\ answer = None
  /\ NoSplit /\ NoTF /\ NoQuiz /\ NoAll /\ NoScore

MakeFillInBlank ==
  /\ pc = "fill_call"
  /\ question' = make_fill_in_blank(sent)[1]
  /\ answer' = make_fill_in_blank(sent)[2]
  /\ pc' = "fill_done"
  /\ UNCHANGED <<sent, splitVars, tfVars, quizVars, allVars, scoreVars>>

NextFill == MakeFillInBlank
SpecFill == InitFill /\ [][NextFill]_vars

(***************************************************************************)
(* make_true_false on every short sentence, over every draw of rnd         *)
(***************************************************************************)
MaxTFLen == 4
TFAlphabet == {"0", "1", "9", " ", "a"}

InitTF ==
  /\ pc = "tf_call"
  /\ sent \in Strings(TFAlphabet, MaxTFLen)
  /\ question = None /\ answer = None
  /\ NoTF /\ NoSplit /\ NoQuiz /\ NoAll /\ NoScore

MakeTrueFalse ==
  /\ pc = "tf_call"
  /\ \E b \in BOOLEAN, choice \in Choices(sent), offset \in Offsets :
       LET r == make_true_false(sent, b, choice, offset) IN
         /\ below' = b
         /\ statement' = r.statement
         /\ truth' = r.answer
         /\ explanation' = r.explanation
         /\ n' = r.n
         /\ new_n' = r.new_n
         /\ k' = r.k
  /\ pc' = "tf_done"
  /\ UNCHANGED <<sent, question, answer, splitVars, quizVars, allVars, scoreVars>>

NextTF == MakeTrueFalse
SpecTF == InitTF /\ [][NextTF]_vars

(***************************************************************************)
(* generate_quiz (app.py:70-84) and generate_all (app.py:118-124)          *)
(***************************************************************************)
\* Python's truth value of q in "if q:" (None and "" are false)
Truthy(q) == q # None /\ q # <<>>

\* WithBlank with <= for < in the quota test
WithBlankOffByOne(bl, limit, s) ==
  LET qa == make_fill_in_blank(s)
  IN IF Len(bl) <= limit /\ Truthy(qa[1])
     THEN Append(bl, [question |-> qa[1], answer |-> qa[2]])
     ELSE bl

\* lines 79-81: the fill-blank list after sentence s
WithBlank(bl, limit, s) ==
  LET qa == make_fill_in_blank(s)
  IN IF Len(bl) < limit /\ Truthy(qa[1])
     THEN Append(bl, [question |-> qa[1], answer |-> qa[2]])
     ELSE bl

\* QuotasMet with "or" for "and": the walk stops when either quota is met
QuotasMetEither(tf, bl, tf_limit, blank_limit) ==
  Len(tf) >= tf_limit \/ Len(bl) >= blank_limit

\* line 82
QuotasMet(tf, bl, tf_limit, blank_limit) == Len(tf) >= tf_limit /\ Len(bl) >= blank_limit

\* lines 119-122
GenerateAll ==
  /\ pc = "all_call"
  /\ discussions' = IF TypeDiscussion \in types
                    THEN generate_discussion_topics(text, num_discussion) ELSE <<>>
  /\ caller' = "generate_all"
  /\ pc' = "quiz_call"
  /\ UNCHANGED <<splitVars, fillVars, tfVars, num_tf, num_blank, tf_list, blank_list, idx,
                 types, num_discussion, out, scoreVars>>

\* lines 71-74, and the for loop finding no sentence
QuizStart ==
  /\ pc = "quiz_call"
  /\ sents' = split_sentences(text)
  /\ scored' = score_tokens(sents')
  /\ tf_list' = <<>>
  /\ blank_list' = <<>>
  /\ idx' = 1
  /\ pc' = IF sents' = <<>> THEN "quiz_return" ELSE "quiz_loop"
  /\ UNCHANGED <<text, fillVars, tfVars, caller, num_tf, num_blank, allVars,
                 words, prevScored, lastTerm>>

\* lines 76-78: the true/false lists sentence s can leave, over the draws of rnd
WithTrueFalse(tf, limit, s) ==
  IF Len(tf) < limit
  THEN {Append(tf, [statement |-> r.statement, answer |-> r.answer,
                    explanation |-> r.explanation]) : r \in TrueFalseResults(s)}
  ELSE {tf}

\* one iteration of the loop of lines 75-83 on sents[idx]
QuizIter ==
  /\ pc = "quiz_loop"
  /\ \E tf \in WithTrueFalse(tf_list, num_tf, sents[idx]) :
       LET bl == WithBlank(blank_list, num_blank, sents[idx])
       IN /\ tf_list' = tf
          /\ blank_list' = bl
          /\ pc' = IF QuotasMet(tf, bl, num_tf, num_blank) \/ idx = Len(sents)
                   THEN "quiz_return" ELSE "quiz_loop"
  /\ idx' = idx + 1
  /\ UNCHANGED <<splitVars, fillVars, tfVars, caller, num_tf, num_blank, allVars, scoreVars>>

\* line 84
QuizReturn ==
  /\ pc = "quiz_return"
  /\ pc' = IF caller = "generate_all" THEN "all_format" ELSE "quiz_done"
  /\ UNCHANGED <<splitVars, fillVars, tfVars, quizVars, allVars, scoreVars>>

\* line 124
FormatOutput ==
  /\ pc = "all_format"
  /\ out' = format_output(discussions, tf_list, blank_list, TypeDiscussion \in types,
                          TypeTrueFalse \in types, TypeBlank \in types)
  /\ pc' = "all_done"
  /\ UNCHANGED <<splitVars, fillVars, tfVars, quizVars, types, num_discussion, discussions,
                 scoreVars>>

\* texts put together from a few pieces
Pieces ==
  { <<"a", "1", ".", " ">>, <<".", ".", ".", " ">>, <<"a", "b", ".", " ">>, <<"x", " ">> }

RECURSIVE Concat(_)
Concat(ps) == IF ps = <<>> THEN <<>> ELSE Head(ps) \o Concat(Tail(ps))

PieceTexts(m) == {Concat(ps) : ps \in Strings(Pieces, m)}

MaxPieces == 3
MaxCount == 2

InitQuiz ==
  /\ pc = "quiz_call"
  /\ text \in PieceTexts(MaxPieces)
  /\ sents = <<>>
  /\ caller = "none"
  /\ num_tf \in 0..MaxCount
  /\ num_blank \in 0..MaxCount
  /\ tf_list = <<>> /\ blank_list = <<>> /\ idx = 0
  /\ NoFill /\ NoTF /\ NoAll /\ NoScore

NextQuiz == QuizStart \/ QuizIter \/ QuizReturn
SpecQuiz == InitQuiz /\ [][NextQuiz]_vars

MaxAllPieces == 1
MaxAllCount == 1
AllCounts == (0 - 1)..MaxAllCount

InitAll ==
  /\ pc = "all_call"
  /\ text \in PieceTexts(MaxAllPieces)
  /\ sents = <<>>
  /\ caller = "none"
  /\ num_tf \in AllCounts
  /\ num_blank \in AllCounts
  /\ num_discussion \in AllCounts
  /\ types \in SUBSET {TypeDiscussion, TypeTrueFalse, TypeBlank}
  /\ tf_list = <<>> /\ blank_list = <<>> /\ idx = 0
  /\ discussions = <<>> /\ out = <<>>
  /\ NoFill /\ NoTF /\ NoScore

NextAll == GenerateAll \/ QuizStart \/ QuizIter \/ QuizReturn \/ FormatOutput
SpecAll == InitAll /\ [][NextAll]_vars

(***************************************************************************)
(* score_tokens while one more occurrence of a word is put into the input  *)
(***************************************************************************)
MaxWords == 5
ScoreVocab ==
  { <<"b">>, <<"c", "c">>, <<"d", "d", "d", "d", "d">>, <<"B">>, <<"O", "n">> }

RECURSIVE JoinWords(_)
\* the words, separated by single spaces
JoinWords(ws) ==
  IF ws = <<>> THEN <<>>
  ELSE IF Len(ws) = 1 THEN Head(ws)
  ELSE Head(ws) \o <<" ">> \o JoinWords(Tail(ws))

InitScore ==
  /\ pc = "score"
  /\ words = <<>>
  /\ scored = <<>>
  /\ prevScored = <<>>
  /\ lastTerm = None
  /\ NoSplit /\ NoFill /\ NoTF /\ NoQuiz /\ NoAll

\* the input gets one more occurrence of w, before its word number p + 1, and
\* score_tokens runs on the new input
AddOccurrence ==
  /\ pc = "score"
  /\ Len(words) < MaxWords
  /\ \E w \in ScoreVocab, p \in 0..Len(words) :
       /\ words' = SubSeq(words, 1, p) \o <<w>> \o SubSeq(words, p + 1, Len(words))
       /\ lastTerm' = w
  /\ prevScored' = scored
  /\ scored' = score_tokens(<<JoinWords(words')>>)
  /\ UNCHANGED <<pc, splitVars, fillVars, tfVars, quizVars, allVars>>

NextScore == AddOccurrence
SpecScore == InitScore /\ [][NextScore]_vars

(***************************************************************************)
(* Properties                                                              *)
(***************************************************************************)
Min(a, b) == IF a <= b THEN a ELSE b
Least(S) == CHOOSE i \in S : \A j \in S : i <= j
NoDigit(s) == \A i \in DOMAIN s : s[i] \notin Digits

\* C1: whenever make_fill_in_blank returns a pair other than (None, None),
\* putting answer in place of the first "____" of question gives back the
\* sentence, for every sentence, also one that holds "____" or underscores.
FillBlankRoundTrip ==
  (pc = "fill_done" /\ question # None) =>
    ReplaceFirst(question, BLANK, answer) = sent

\* C2: whenever make_true_false returns answer = False, the explanation holds
\* the original digit string and the replacement digit string, and the
\* replacement's value is greater than the original's by 1 to 10.
FalseExplanationConsistent ==
  (pc = "tf_done" /\ truth = FALSE) =>
    /\ Contains(explanation, n)
    /\ Contains(explanation, new_n)
    /\ StrToInt(new_n) - StrToInt(n) \in 1..10

\* a false answer whose replacement is longer than the original (9 -> 10 and up)
FalseExplanationWitness ==
  /\ pc = "tf_done" /\ truth = FALSE
  /\ Len(new_n) > Len(n)
  /\ Contains(explanation, n \o Arrow \o new_n)

\* C3: at every step of generate_quiz's walk and in its result, for
\* non-negative num_tf and num_blank, the true/false list has at most num_tf
\* items and the fill-blank list at most num_blank items.
QuotasNeverExceeded ==
  (num_tf >= 0 /\ num_blank >= 0) =>
    Len(tf_list) <= num_tf /\ Len(blank_list) <= num_blank

\* the walk stopped with both quotas full and sentences left over
QuotasFullWitness ==
  /\ pc = "quiz_done"
  /\ num_tf > 0 /\ Len(tf_list) = num_tf
  /\ num_blank > 0 /\ Len(blank_list) = num_blank
  /\ idx <= Len(sents)

\* the sentences that hold at least one token
Usable(ss) == {i \in DOMAIN ss : tokenize(ss[i]) # <<>>}

\* C4: for non-negative counts generate_quiz returns exactly
\* min(num_tf, number of sentences) true/false items and exactly
\* min(num_blank, number of sentences with at least one token) fill-blank
\* items: a sentence without a fill-blank item costs no quota and does not
\* stop the walk.
QuotasFilled ==
  pc = "quiz_done" =>
    /\ Len(tf_list) = Min(num_tf, Len(sents))
    /\ Len(blank_list) = Min(num_blank, Cardinality(Usable(sents)))

\* two sentences, the first without a token, more fill-blank items asked for
\* than the text can give: exactly one is returned
UnderFilledWitness ==
  /\ pc = "quiz_done"
  /\ Len(sents) = 2 /\ Usable(sents) = {2}
  /\ num_blank = 2 /\ Len(blank_list) = 1
  /\ Len(tf_list) = Min(num_tf, 2)

\* C5: for text = "" generate_all returns the empty string, for every
\* selection of categories and every value of the three counts.
EmptyInputEmptyDocument ==
  (pc = "all_done" /\ text = <<>>) => out = <<>>

\* the empty text with every category selected and every count positive
EmptyInputWitness ==
  /\ pc = "all_done" /\ text = <<>>
  /\ types = {TypeDiscussion, TypeTrueFalse, TypeBlank}
  /\ num_discussion > 0 /\ num_tf > 0 /\ num_blank > 0
  /\ out = <<>>

\* C6: every element of split_sentences(text) has no leading or trailing
\* whitespace and at least 3 characters; empty or whitespace-only text gives
\* the empty sequence.
SentenceLengthInvariant ==
  pc = "split_done" =>
    /\ \A i \in DOMAIN sents :
         /\ Len(sents[i]) >= 3
         /\ ~IsSpace(sents[i][1])
         /\ ~IsSpace(sents[i][Len(sents[i])])
    /\ (\A j \in DOMAIN text : IsSpace(text[j])) => sents = <<>>

\* a text with leading whitespace that is split in two, one part kept and one
\* dropped as too short
SentenceLengthWitness ==
  /\ pc = "split_done"
  /\ text # <<>> /\ IsSpace(text[1])
  /\ Len(ReSplit(Strip(CollapseWhitespace(text)))) = 2
  /\ Len(sents) = 1

\* position of term t in a ranking, 0 if it is not ranked
Rank(ranking, t) ==
  IF \E i \in DOMAIN ranking : ranking[i][1] = t
  THEN CHOOSE i \in DOMAIN ranking : ranking[i][1] = t
  ELSE 0

\* score of term t in a ranking (in quarters), 0 if it is not ranked
RankedScore(ranking, t) ==
  IF Rank(ranking, t) = 0 THEN 0 ELSE ranking[Rank(ranking, t)][2]

\* C7: when one counted term occurs once more and every other term's
\* frequency is unchanged, the term's score does not decrease and it stays
\* before every term it was before in the ranking, ties included.
ScoringMonotone ==
  (lastTerm # None /\ Lower(lastTerm) \notin STOPWORDS) =>
    /\ RankedScore(scored, lastTerm) >= RankedScore(prevScored, lastTerm)
    /\ \A i \in DOMAIN prevScored :
         LET u == prevScored[i][1] IN
           (Rank(prevScored, lastTerm) > 0 /\ Rank(prevScored, lastTerm) < i)
             => (Rank(scored, lastTerm) > 0 /\ Rank(scored, lastTerm) < Rank(scored, u))

\* the term was tied with another term that was ranked before it, and more
\* often it is ranked before that term
ScoringTieWitness ==
  /\ lastTerm # None /\ Lower(lastTerm) \notin STOPWORDS
  /\ \E i \in DOMAIN prevScored :
       /\ i < Rank(prevScored, lastTerm)
       /\ prevScored[i][2] = RankedScore(prevScored, lastTerm)
       /\ Rank(scored, lastTerm) < Rank(scored, prevScored[i][1])
  /\ \E i \in DOMAIN prevScored : Rank(prevScored, lastTerm) > 0 /\ Rank(prevScored, lastTerm) < i

\* run is a maximal digit run of s that starts at i
MaximalRunAt(s, run, i) ==
  /\ OccursAt(s, run, i)
  /\ (i = 1 \/ ~IsDigit(s[i - 1]))
  /\ (i + Len(run) > Len(s) \/ ~IsDigit(s[i + Len(run)]))

\* C8: when make_true_false returns answer = False, the statement is the
\* sentence with the first maximal digit run equal to the selected run n, of
\* value v, replaced by str(v + k), k in 1..10, and nothing else changed: the
\* replacement never lands inside a longer digit run.
FalsificationEditsSelectedRun ==
  (pc = "tf_done" /\ truth = FALSE) =>
    /\ k \in 1..10
    /\ \E i \in DOMAIN sent :
         /\ MaximalRunAt(sent, n, i)
         /\ \A j \in 1..(i - 1) : ~MaximalRunAt(sent, n, j)
         /\ statement = SubSeq(sent, 1, i - 1) \o IntToStr(StrToInt(n) + k)
                          \o SubSeq(sent, i + Len(n), Len(sent))

\* C9: make_fill_in_blank returns (None, None) exactly when the sentence has
\* no token; otherwise the answer is the first token of length >= 2 that is
\* not in the stop-word set as written, or without such a token the first of
\* the longest tokens, and the question is the sentence with the first
\* occurrence of the answer replaced by "____".
FillBlankSelectionPolicy ==
  pc = "fill_done" =>
    LET toks == tokenize(sent)
        good == {i \in DOMAIN toks : Len(toks[i]) >= 2 /\ toks[i] \notin STOPWORDS}
        longest == {i \in DOMAIN toks : \A j \in DOMAIN toks : Len(toks[j]) <= Len(toks[i])}
        expected == IF good # {} THEN toks[Least(good)] ELSE toks[Least(longest)]
    IN /\ (question = None /\ answer = None) <=> toks = <<>>
       /\ (question = None) <=> (answer = None)
       /\ toks # <<>> =>
            /\ answer = expected
            /\ \E i \in DOMAIN sent :
                 /\ OccursAt(sent, expected, i)
                 /\ \A j \in 1..(i - 1) : ~OccursAt(sent, expected, j)
                 /\ question = SubSeq(sent, 1, i - 1) \o <<"_", "_", "_", "_">>
                                 \o SubSeq(sent, i + Len(expected), Len(sent))

\* no token passes the filter, two different tokens are the longest, and the
\* first of them is the answer
FallbackWitness ==
  /\ pc = "fill_done"
  /\ \A i \in DOMAIN tokenize(sent) : ~IsCandidate(tokenize(sent)[i])
  /\ \E i, j \in DOMAIN tokenize(sent) :
       /\ i < j
       /\ tokenize(sent)[i] # tokenize(sent)[j]
       /\ Len(tokenize(sent)[i]) = Len(tokenize(sent)[j])
       /\ \A m \in DOMAIN tokenize(sent) : Len(tokenize(sent)[m]) <= Len(tokenize(sent)[i])
       /\ \A m \in 1..(i - 1) : Len(tokenize(sent)[m]) < Len(tokenize(sent)[i])
       /\ answer = tokenize(sent)[i]

\* C10: if the sentence holds no digit, or the draw is not below 0.6,
\* make_true_false returns the sentence as it is, answer = True and an
\* explanation that only quotes the sentence; and answer = True exactly when
\* the statement equals the sentence.
TruePathUnmodified ==
  pc = "tf_done" =>
    /\ (NoDigit(sent) \/ ~below) =>
         /\ statement = sent
         /\ truth = TRUE
         /\ explanation = ExplanationPrefix \o sent \o <<"'">>
    /\ (truth = TRUE) <=> (statement = sent)

\* a sentence with a digit whose draw was not below 0.6
TruePathWitness ==
  /\ pc = "tf_done"
  /\ ~NoDigit(sent) /\ ~below
  /\ truth = TRUE /\ statement = sent
====
